---- MODULE Spec2Model ----
(***************************************************************************)
(* Model of plotters/src/coord/ranged2d/geo.rs: the Mercator projection    *)
(* engine (new / build / bbox / map) and the LatLonCoord coordinate system *)
(* (new / translate) composed from it.                                     *)
(*                                                                         *)
(* Numbers.  Degrees are integers.  Projected coordinates are integers in  *)
(* kilometres (the engine works in metres, "+units=m"; the model rounds to *)
(* the kilometre).  An Option<T> is a sequence: None is <<>>, Some(v) is   *)
(* <<v>>.  A Range (f64, f64) is a pair <<a, b>>.                          *)
(*                                                                         *)
(* Lifecycle.  One engine is created by Mercator::new(), optionally built, *)
(* queried with bbox and map, and finally moved into LatLonCoord::new,     *)
(* after which the caller no longer holds it (Mercator is not Clone) and   *)
(* only translate is available.  A panic ends the run.                     *)
(***************************************************************************)
EXTENDS Integers, Sequences, FiniteSets, TLC

VARIABLES mercator, coord, built, last

vars == <<mercator, coord, built, last>>

----------------------------------------------------------------------------
(* Bounds of the model.                                                    *)

\* longitudes tried are the multiples of 180 degrees in
\* -180*MaxLonK .. 180*MaxLonK; beyond +-180 the engine wraps them
MaxLonK == 1

LonVals == {180 * k : k \in (0 - MaxLonK)..MaxLonK}

\* -80 and 84 are the default latitude bounds; 100 is not a latitude and
\* cannot be projected
LatVals == {-80, 0, 84, 100}

None == <<>>

Some(v) == <<v>>

LonRanges == {None} \cup {Some(<<a, b>>) : a \in LonVals, b \in LonVals}

LatRanges == {None} \cup {Some(<<a, b>>) : a \in LatVals, b \in LatVals}

Points == LonVals \X LatVals

\* pixel ranges handed to LatLonCoord::new: (0..640, 0..480) and the same
\* with the vertical axis running downwards (0..640, 480..0)
ActualRanges ==
    { << [start |-> 0, end |-> 640], [start |-> 0, end |-> 480] >>,
      << [start |-> 0, end |-> 640], [start |-> 480, end |-> 0] >> }

----------------------------------------------------------------------------
(* Outcomes of a call.                                                     *)

Uninital == [tag |-> "Uninital"]

ProjError(source) == [tag |-> "ProjError", source |-> source]

Ok(v) == [kind |-> "Ok", value |-> v]

Err(e) == [kind |-> "Err", err |-> e]

Panic == [kind |-> "Panic"]

\* Option::map_or(default, |v| v)
MapOr(opt, default) == IF opt = None THEN default ELSE opt[1]

----------------------------------------------------------------------------
(* The external projection engine (crate proj).                            *)

Abs(n) == IF n < 0 THEN 0 - n ELSE n

\* longitude relative to the central meridian, brought back into -180..180
AdjLon(l) == IF Abs(l) <= 180 THEN l ELSE ((l + 180) % 360) - 180

\* easting of a longitude difference of d degrees, in km: 180 degrees is
\* half the equator, 20038 km
MercX(d) == IF d < 0 THEN 0 - ((Abs(d) * 20038) \div 180)
                     ELSE (d * 20038) \div 180

\* northing of a latitude, in km (ellipsoidal Mercator, odd in the latitude)
MercYAbs(a) ==
    CASE a = 0  -> 0
      [] a = 80 -> 15497
      [] a = 84 -> 18765

MercY(lat) == IF lat < 0 THEN 0 - MercYAbs(Abs(lat)) ELSE MercYAbs(lat)

\* Proj::convert((lon, lat)): a latitude beyond +-90 degrees is rejected
Convert(t, v) ==
    IF Abs(v[2]) > 90
    THEN [ok |-> FALSE, err |-> "InvalidCoordinate"]
    ELSE [ok |-> TRUE,
          v  |-> << MercX(AdjLon(v[1] - t.lon_0)) + t.x_0,
                    MercY(v[2]) + t.y_0 >>]

\* the value of an option in a projection-definition string
OptionValue(def, option) ==
    def[CHOOSE i \in 1..Len(def) : def[i][1] = option][2]

\* Proj::new(definition): only the Mercator definition is known to the model
ProjNew(def) ==
    IF /\ \E i \in 1..Len(def) : def[i][1] = "proj"
       /\ OptionValue(def, "proj") = "merc"
    THEN Some([proj  |-> "merc",
               lon_0 |-> OptionValue(def, "lon_0"),
               x_0   |-> OptionValue(def, "x_0"),
               y_0   |-> OptionValue(def, "y_0"),
               units |-> OptionValue(def, "units")])
    ELSE None

----------------------------------------------------------------------------
(* Mercator.                                                               *)

\* the "+option=value" items, in order; joining them with spaces keeps the
\* order and the items
proj_string(vs) == [i \in 1..Len(vs) |-> << vs[i][1], vs[i][2] >>]

\* Mercator::new() with latitude bounds symmetric about the equator
MercatorNew_SymmetricLat ==
    [central_lon         |-> 0,
     min_latitude        |-> -84,
     max_latitude        |-> 84,
     false_easting       |-> 0,
     false_northing      |-> 0,
     latitude_true_scale |-> 0,
     proj_marker         |-> None]

MercatorNew ==
    [central_lon         |-> 0,
     min_latitude        |-> -80,
     max_latitude        |-> 84,
     false_easting       |-> 0,
     false_northing      |-> 0,
     latitude_true_scale |-> 0,
     proj_marker         |-> None]

\* Mercator::build(self): Ok(engine with its transformer) or a panic when
\* the engine rejects the definition string
BuildOf(self) ==
    LET input == << <<"proj", "merc">>,
                    <<"lon_0", self.central_lon>>,
                    <<"x_0", self.false_easting>>,
                    <<"y_0", self.false_northing>>,
                    <<"units", "m">> >>
        p == ProjNew(proj_string(input))
    IN  IF p = None THEN Panic
        ELSE Ok([self EXCEPT !.proj_marker = p])

\* the transformer build() would make, used by bbox variants that do not
\* stop at an absent proj_marker
DefaultTransformer ==
    [proj |-> "merc", lon_0 |-> 0, x_0 |-> 0, y_0 |-> 0, units |-> "m"]

\* the rest of bbox once the transformer t and the extent are at hand: each
\* conversion returns early on failure (the ? operator)
BboxWith(t, xr, yr) ==
    LET bl == Convert(t, <<xr[1], yr[1]>>)
        rt == Convert(t, <<xr[2], yr[2]>>)
    IN  IF ~bl.ok
        THEN [outcome   |-> Err(ProjError(bl.err)),
              converted |-> << <<xr[1], yr[1]>> >>]
        ELSE IF ~rt.ok
        THEN [outcome   |-> Err(ProjError(rt.err)),
              converted |-> << <<xr[1], yr[1]>>, <<xr[2], yr[2]>> >>]
        ELSE [outcome   |-> Ok(<< <<bl.v[1], rt.v[1]>>,
                                  <<bl.v[2], rt.v[2]>> >>),
              converted |-> << <<xr[1], yr[1]>>, <<xr[2], yr[2]>> >>]

\* bbox that projects the corners before it looks at proj_marker
BboxOf_ProjectsFirst(self, x_ranged, y_ranged) ==
    LET xr == MapOr(x_ranged, <<-180, 180>>)
        yr == MapOr(y_ranged, <<self.min_latitude, self.max_latitude>>)
        r  == BboxWith(IF self.proj_marker = None THEN DefaultTransformer
                       ELSE self.proj_marker[1], xr, yr)
    IN  IF r.outcome.kind = "Err" THEN r
        ELSE IF self.proj_marker = None
        THEN [outcome |-> Err(Uninital), converted |-> r.converted]
        ELSE r

\* bbox whose default latitude extent is (-max_latitude, max_latitude)
BboxOf_SymmetricLat(self, x_ranged, y_ranged) ==
    IF self.proj_marker = None
    THEN [outcome |-> Err(Uninital), converted |-> << >>]
    ELSE BboxWith(self.proj_marker[1],
                  MapOr(x_ranged, <<-180, 180>>),
                  MapOr(y_ranged, <<0 - self.max_latitude, self.max_latitude>>))

\* bbox that orders each returned range as (min, max)
BboxOf_Sorted(self, x_ranged, y_ranged) ==
    IF self.proj_marker = None
    THEN [outcome |-> Err(Uninital), converted |-> << >>]
    ELSE LET r == BboxWith(self.proj_marker[1],
                           MapOr(x_ranged, <<-180, 180>>),
                           MapOr(y_ranged, <<self.min_latitude, self.max_latitude>>))
             Sorted(p) == IF p[1] <= p[2] THEN p ELSE <<p[2], p[1]>>
         IN  IF r.outcome.kind # "Ok" THEN r
             ELSE [r EXCEPT !.outcome = Ok(<< Sorted(r.outcome.value[1]),
                                             Sorted(r.outcome.value[2]) >>)]

\* bbox that returns the two projected corners instead of the two ranges
BboxOf_Transposed(self, x_ranged, y_ranged) ==
    IF self.proj_marker = None
    THEN [outcome |-> Err(Uninital), converted |-> << >>]
    ELSE LET r == BboxWith(self.proj_marker[1],
                           MapOr(x_ranged, <<-180, 180>>),
                           MapOr(y_ranged, <<self.min_latitude, self.max_latitude>>))
         IN  IF r.outcome.kind # "Ok" THEN r
             ELSE [r EXCEPT !.outcome =
                      Ok(<< <<r.outcome.value[1][1], r.outcome.value[2][1]>>,
                            <<r.outcome.value[1][2], r.outcome.value[2][2]>> >>)]

\* bbox that projects the top-right corner before the bottom-left one
BboxOf_TopRightFirst(self, x_ranged, y_ranged) ==
    IF self.proj_marker = None
    THEN [outcome |-> Err(Uninital), converted |-> << >>]
    ELSE LET t  == self.proj_marker[1]
             xr == MapOr(x_ranged, <<-180, 180>>)
             yr == MapOr(y_ranged, <<self.min_latitude, self.max_latitude>>)
             bl == Convert(t, <<xr[1], yr[1]>>)
             rt == Convert(t, <<xr[2], yr[2]>>)
         IN  IF ~rt.ok
             THEN [outcome   |-> Err(ProjError(rt.err)),
                   converted |-> << <<xr[2], yr[2]>> >>]
             ELSE IF ~bl.ok
             THEN [outcome   |-> Err(ProjError(bl.err)),
                   converted |-> << <<xr[2], yr[2]>>, <<xr[1], yr[1]>> >>]
             ELSE [outcome   |-> Ok(<< <<bl.v[1], rt.v[1]>>,
                                       <<bl.v[2], rt.v[2]>> >>),
                   converted |-> << <<xr[2], yr[2]>>, <<xr[1], yr[1]>> >>]

\* Mercator::bbox(&self, x_ranged, y_ranged): the outcome and the points
\* handed to the transformer, in call order
BboxOf(self, x_ranged, y_ranged) ==
    IF self.proj_marker = None
    THEN [outcome |-> Err(Uninital), converted |-> << >>]
    ELSE BboxWith(self.proj_marker[1],
                  MapOr(x_ranged, <<-180, 180>>),
                  MapOr(y_ranged, <<self.min_latitude, self.max_latitude>>))

\* map that falls back to the origin when the point cannot be projected
MapOf_OriginOnFailure(self, v) ==
    IF self.proj_marker = None THEN Panic
    ELSE LET c == Convert(self.proj_marker[1], v)
         IN  IF c.ok THEN Ok(c.v) ELSE Ok(<<0, 0>>)

\* Mercator::map(&self, v): both unwraps panic
MapOf(self, v) ==
    IF self.proj_marker = None THEN Panic
    ELSE LET c == Convert(self.proj_marker[1], v)
         IN  IF c.ok THEN Ok(c.v) ELSE Panic

----------------------------------------------------------------------------
(* The Cartesian pixel mapping (crate::coord::cartesian::Cartesian2d over  *)
(* RangedCoordf64).                                                        *)

\* i32 division, truncating towards zero
TruncDiv(n, d) == IF n < 0 THEN 0 - ((0 - n) \div d) ELSE n \div d

\* floor(n / d + 0.001) for d # 0
FloorEps(n, d) ==
    LET nn == IF d < 0 THEN 0 - n ELSE n
        dd == Abs(d)
        f  == nn \div dd
        r  == nn % dd
    IN  IF 1000 * r >= 999 * dd THEN f + 1 ELSE f

\* RangedCoordf64::map(v, limit) for the logical range <<a, b>>
RangedMap(range, v, limit) ==
    LET actual_length == limit[2] - limit[1]
        d == range[2] - range[1]
    IN  IF d = 0 THEN TruncDiv(actual_length, 2)
        ELSE IF actual_length = 0 THEN limit[2]
        ELSE IF actual_length > 0
        THEN limit[1] + FloorEps(actual_length * (v - range[1]), d)
        ELSE limit[1] - FloorEps((0 - actual_length) * (v - range[1]), d)

Cartesian2dNew(logic_x, logic_y, actual) ==
    [logic_x |-> logic_x,
     logic_y |-> logic_y,
     back_x  |-> <<actual[1].start, actual[1].end>>,
     back_y  |-> <<actual[2].start, actual[2].end>>]

CartesianTranslate(c, p) ==
    << RangedMap(c.logic_x, p[1], c.back_x),
       RangedMap(c.logic_y, p[2], c.back_y) >>

----------------------------------------------------------------------------
(* LatLonCoord.                                                            *)

\* new that stores the resolved extent in place of an absent range
LatLonCoordNewOf_StoresResolved(lon, lat, actual, proj) ==
    LET b == BboxOf(proj, lon, lat).outcome
    IN  IF b.kind # "Ok" THEN Panic
        ELSE Ok([lon       |-> Some(MapOr(lon, <<-180, 180>>)),
                 lat       |-> Some(MapOr(lat, <<proj.min_latitude,
                                                 proj.max_latitude>>)),
                 x         |-> b.value[1],
                 y         |-> b.value[2],
                 cartesian |-> Cartesian2dNew(b.value[1], b.value[2], actual),
                 proj      |-> proj])

\* LatLonCoord::new(lon, lat, actual, proj): the unwrap of bbox panics
LatLonCoordNewOf(lon, lat, actual, proj) ==
    LET b == BboxOf(proj, lon, lat).outcome
    IN  IF b.kind # "Ok" THEN Panic
        ELSE Ok([lon       |-> lon,
                 lat       |-> lat,
                 x         |-> b.value[1],
                 y         |-> b.value[2],
                 cartesian |-> Cartesian2dNew(b.value[1], b.value[2], actual),
                 proj      |-> proj])

\* translate that clamps the pixel to the pixel rectangle
TranslateOf_Clamped(self, from) ==
    LET m == MapOf(self.proj, from)
        Clamp(v, l) == LET lo == IF l[1] <= l[2] THEN l[1] ELSE l[2]
                           hi == IF l[1] <= l[2] THEN l[2] ELSE l[1]
                       IN  IF v < lo THEN lo ELSE IF v > hi THEN hi ELSE v
    IN  IF m.kind = "Panic" THEN Panic
        ELSE LET p == CartesianTranslate(self.cartesian, m.value)
             IN  Ok(<< Clamp(p[1], self.cartesian.back_x),
                       Clamp(p[2], self.cartesian.back_y) >>)

\* translate that hands the degrees to the pixel mapping unprojected
TranslateOf_Unprojected(self, from) ==
    LET m == MapOf(self.proj, from)
    IN  IF m.kind = "Panic" THEN Panic
        ELSE Ok(CartesianTranslate(self.cartesian, from))

\* LatLonCoord::translate(&self, from)
TranslateOf(self, from) ==
    LET m == MapOf(self.proj, from)
    IN  IF m.kind = "Panic" THEN Panic
        ELSE Ok(CartesianTranslate(self.cartesian, m.value))

----------------------------------------------------------------------------
(* The state machine.                                                      *)

Call(op, args, outcome, converted) ==
    [op |-> op, args |-> args, outcome |-> outcome, converted |-> converted]

Running == last.outcome.kind # "Panic"

Init ==
    /\ mercator = Some(MercatorNew)
    /\ coord = None
    /\ built = FALSE
    /\ last = Call("Mercator::new", << >>, Ok(<< >>), << >>)

Build ==
    /\ Running
    /\ mercator # None
    /\ LET r == BuildOf(mercator[1])
       IN  /\ mercator' = IF r.kind = "Ok" THEN Some(r.value) ELSE None
           /\ last' = Call("build", << >>,
                           IF r.kind = "Ok" THEN Ok(<< >>) ELSE Panic, << >>)
    /\ built' = TRUE
    /\ UNCHANGED coord

Bbox(x_ranged, y_ranged) ==
    /\ Running
    /\ mercator # None
    /\ LET r == BboxOf(mercator[1], x_ranged, y_ranged)
       IN  last' = Call("bbox", <<x_ranged, y_ranged>>, r.outcome, r.converted)
    /\ UNCHANGED <<mercator, coord, built>>

Map(v) ==
    /\ Running
    /\ mercator # None
    /\ last' = Call("map", <<v>>, MapOf(mercator[1], v), << >>)
    /\ UNCHANGED <<mercator, coord, built>>

LatLonCoordNew(lon, lat, actual) ==
    /\ Running
    /\ mercator # None
    /\ LET r == LatLonCoordNewOf(lon, lat, actual, mercator[1])
       IN  /\ coord' = IF r.kind = "Ok" THEN Some(r.value) ELSE coord
           /\ last' = Call("LatLonCoord::new", <<lon, lat, actual>>,
                           IF r.kind = "Ok" THEN Ok(<< >>) ELSE Panic, << >>)
    /\ mercator' = None
    /\ UNCHANGED built

Translate(from) ==
    /\ Running
    /\ coord # None
    /\ last' = Call("translate", <<from>>, TranslateOf(coord[1], from), << >>)
    /\ UNCHANGED <<mercator, coord, built>>

Next ==
    \/ Build
    \/ \E x_ranged \in LonRanges, y_ranged \in LatRanges : Bbox(x_ranged, y_ranged)
    \/ \E v \in Points : Map(v)
    \/ \E lon \in LonRanges, lat \in LatRanges, actual \in ActualRanges :
           LatLonCoordNew(lon, lat, actual)
    \/ \E from \in Points : Translate(from)

Spec == Init /\ [][Next]_vars

TypeOK ==
    /\ built \in BOOLEAN
    /\ last.outcome.kind \in {"Ok", "Err", "Panic"}
    /\ Len(mercator) <= 1
    /\ Len(coord) <= 1

----------------------------------------------------------------------------
(* Properties.                                                             *)

\* the receiver of the last bbox / map call: the engine the caller holds
Engine == mercator[1]

ResolvedLon(x_ranged) == MapOr(x_ranged, <<-180, 180>>)

ResolvedLat(self, y_ranged) ==
    MapOr(y_ranged, <<self.min_latitude, self.max_latitude>>)

\* the two defining corners of the extent of the last bbox call
BottomLeft == << ResolvedLon(last.args[1])[1], ResolvedLat(Engine, last.args[2])[1] >>

TopRight == << ResolvedLon(last.args[1])[2], ResolvedLat(Engine, last.args[2])[2] >>

Projectable(self, v) == Convert(self.proj_marker[1], v).ok

Min(a, b) == IF a <= b THEN a ELSE b

Max(a, b) == IF a <= b THEN b ELSE a

BboxOnBuilt == last.op = "bbox" /\ mercator # None /\ built

\* a coordinate system made from a built default engine with lon = None,
\* lat = None and the pixel ranges (0..640, 0..480)
DefaultCoord ==
    /\ coord # None
    /\ coord[1].lon = None
    /\ coord[1].lat = None
    /\ coord[1].proj = BuildOf(MercatorNew).value
    /\ coord[1].cartesian.back_x = <<0, 640>>
    /\ coord[1].cartesian.back_y = <<0, 480>>

TranslatedOnDefault(from) ==
    last.op = "translate" /\ last.args = <<from>> /\ DefaultCoord

\* C1: on an engine made by Mercator::new() on which build() was never
\* called the transformer handle is absent, and bbox returns
\* Err(CoordError::Uninital) for every combination of supplied or absent
\* ranges, unprojectable corners included, without projecting anything.
C1_UnbuiltBboxIsUninital ==
    (mercator # None /\ ~built) =>
        /\ Engine.proj_marker = None
        /\ last.op = "bbox" =>
               last.outcome = Err(Uninital) /\ last.converted = << >>
        /\ \A x_ranged \in LonRanges, y_ranged \in LatRanges :
               BboxOf(Engine, x_ranged, y_ranged).outcome = Err(Uninital)

C1_Witness ==
    /\ mercator # None /\ ~built
    /\ last.op = "bbox"
    /\ last.args = << Some(<<0, 180>>), Some(<<100, 100>>) >>
    /\ last.outcome = Err(Uninital)

\* C2: on a built engine the outcome of bbox with an absent range is the
\* outcome of bbox with that range given as the default extent,
\* (-180, 180) for the longitude and (min_latitude, max_latitude) for the
\* latitude, each absent range being resolved on its own.
C2_AbsentRangeIsDefaultExtent ==
    BboxOnBuilt =>
        last.outcome =
            BboxOf(Engine,
                   IF last.args[1] = None THEN Some(<<-180, 180>>)
                                          ELSE last.args[1],
                   IF last.args[2] = None
                   THEN Some(<<Engine.min_latitude, Engine.max_latitude>>)
                   ELSE last.args[2]).outcome

C2_Witness ==
    /\ BboxOnBuilt
    /\ last.args = <<None, None>>
    /\ last.outcome.kind = "Ok"
    /\ last.outcome = BboxOf(Engine, Some(<<-180, 180>>), Some(<<-80, 84>>)).outcome

\* C3 as stated: on the default coordinate system translate((0, 0)) is the
\* pixel at the horizontal and the vertical midpoint, (320, 240).
C3_Original_CentreIsMidpoint ==
    TranslatedOnDefault(<<0, 0>>) => last.outcome = Ok(<<320, 240>>)

\* C3 amended: on the default coordinate system translate((0, 0)) is at the
\* horizontal midpoint, x = 320, and at y = 217, short of the vertical
\* midpoint 240: the default latitude bounds -80 and 84 are not symmetric
\* about the equator, so (0, 0) is not the centre of the bounding box in y.
C3_CentreIsHorizontalMidpointOnly ==
    TranslatedOnDefault(<<0, 0>>) => last.outcome = Ok(<<320, 217>>)

C3_Witness ==
    /\ TranslatedOnDefault(<<0, 0>>)
    /\ last.outcome.kind = "Ok"
    /\ last.outcome.value[1] = 320
    /\ last.outcome.value[2] < 240

\* the ranges re-derived from the two projected corners of the last bbox
\* call: minimum and maximum of their x values and of their y values
Rederived ==
    LET bl == MapOf(Engine, BottomLeft).value
        rt == MapOf(Engine, TopRight).value
    IN  << << Min(bl[1], rt[1]), Max(bl[1], rt[1]) >>,
           << Min(bl[2], rt[2]), Max(bl[2], rt[2]) >> >>

CornersInOrder ==
    LET bl == MapOf(Engine, BottomLeft).value
        rt == MapOf(Engine, TopRight).value
    IN  bl[1] <= rt[1] /\ bl[2] <= rt[2]

\* C4 as stated: whenever bbox succeeds, the minimum and maximum of the
\* projected corners reproduce the returned ranges.
C4_Original_RederivedEqualsBbox ==
    (BboxOnBuilt /\ last.outcome.kind = "Ok") => last.outcome.value = Rederived

\* C4 amended: when bbox succeeds, the minimum and maximum of the projected
\* corners reproduce the returned ranges exactly when the projected
\* bottom-left corner is not beyond the projected top-right corner in x or
\* in y; otherwise bbox keeps the corner order and the range is (max, min).
C4_RederivedEqualsBboxIffCornersInOrder ==
    (BboxOnBuilt /\ last.outcome.kind = "Ok") =>
        ((last.outcome.value = Rederived) <=> CornersInOrder)

C4_Witness ==
    /\ BboxOnBuilt
    /\ last.args = << Some(<<-180, 180>>), None >>
    /\ last.outcome.kind = "Ok"
    /\ last.outcome.value = Rederived
    /\ last.outcome.value[1][1] < last.outcome.value[1][2]

\* C5: translate does no bounds checking: for every point the projection
\* can project, inside or outside the extent given at construction, its
\* result is the Cartesian pixel mapping of proj.map(point), and it leaves
\* the coordinate system (ranges, mapping, projection) as it was.
C5_TranslateIsUncheckedComposition ==
    [][ (last'.op = "translate") =>
          /\ coord' = coord
          /\ LET self == coord[1]
                 from == last'.args[1]
             IN  Projectable(self.proj, from) =>
                   last'.outcome =
                     Ok(CartesianTranslate(self.cartesian,
                                           MapOf(self.proj, from).value)) ]_vars

C5_Witness ==
    /\ last.op = "translate"
    /\ coord[1].lat = Some(<<0, 84>>)
    /\ coord[1].lon = Some(<<0, 180>>)
    /\ coord[1].cartesian.back_y = <<0, 480>>
    /\ last.args = << <<-180, -80>> >>
    /\ last.outcome.kind = "Ok"
    /\ last.outcome.value[1] < 0
    /\ last.outcome.value[2] < 0

\* C6: map, and translate through it, either returns a value or panics and
\* never yields a CoordError: it panics exactly when the engine is not built
\* or the point cannot be projected, where bbox returns Err(Uninital) or
\* Err(ProjError) instead of panicking.
C6_MapPanicsWhereBboxErrs ==
    /\ (last.op = "map" /\ mercator # None) =>
          /\ last.outcome.kind \in {"Ok", "Panic"}
          /\ (last.outcome = Panic) <=>
                 (Engine.proj_marker = None \/ ~Projectable(Engine, last.args[1]))
    /\ last.op = "translate" =>
          /\ last.outcome.kind \in {"Ok", "Panic"}
          /\ (last.outcome = Panic) <=>
                 (coord[1].proj.proj_marker = None
                    \/ ~Projectable(coord[1].proj, last.args[1]))
    /\ (last.op = "bbox" /\ mercator # None) =>
          /\ last.outcome.kind # "Panic"
          /\ Engine.proj_marker = None => last.outcome = Err(Uninital)
          /\ (Engine.proj_marker # None /\ ~Projectable(Engine, BottomLeft))
                 => (last.outcome.kind = "Err" /\ last.outcome.err.tag = "ProjError")

C6_Witness ==
    /\ last.op = "map"
    /\ built
    /\ last.args = << <<0, 100>> >>
    /\ last.outcome = Panic

\* C7: on the default coordinate system with pixel ranges (0..640, 0..480)
\* translate((-180, min_latitude)) is the start of both pixel ranges, (0, 0),
\* and translate((180, max_latitude)) is the end of both, (640, 480).
C7_CornersMapToOppositePixelCorners ==
    /\ TranslatedOnDefault(<<-180, -80>>) => last.outcome = Ok(<<0, 0>>)
    /\ TranslatedOnDefault(<<180, 84>>) => last.outcome = Ok(<<640, 480>>)

C7_Witness ==
    /\ TranslatedOnDefault(<<180, 84>>)
    /\ last.outcome = Ok(<<640, 480>>)

\* C8: on a built engine bbox hands the transformer only the bottom-left
\* and then the top-right corner of the resolved extent, and when both
\* project it returns Ok(((bl.x, rt.x), (bl.y, rt.y))) with the first
\* component of each range from the bottom-left corner, never reordered.
C8_BboxIsTheTwoCornersInCornerOrder ==
    BboxOnBuilt =>
        /\ Len(last.converted) \in {1, 2}
        /\ last.converted[1] = BottomLeft
        /\ Len(last.converted) = 2 => last.converted[2] = TopRight
        /\ (Projectable(Engine, BottomLeft) /\ Projectable(Engine, TopRight)) =>
              LET bl == Convert(Engine.proj_marker[1], BottomLeft).v
                  rt == Convert(Engine.proj_marker[1], TopRight).v
              IN  /\ last.outcome = Ok(<< <<bl[1], rt[1]>>, <<bl[2], rt[2]>> >>)
                  /\ last.converted = <<BottomLeft, TopRight>>

C8_Witness ==
    /\ BboxOnBuilt
    /\ last.args = << Some(<<180, -180>>), Some(<<84, -80>>) >>
    /\ last.outcome.kind = "Ok"
    /\ last.outcome.value[1][1] > last.outcome.value[1][2]
    /\ last.outcome.value[2][1] > last.outcome.value[2][2]

\* C9: every outcome of bbox is Ok, Err(Uninital) or Err(ProjError), never
\* a panic, and an error carries no ranges; on a built engine it is
\* Err(ProjError) exactly when a corner cannot be projected, and it is the
\* bottom-left corner's error, with the top-right corner not even tried,
\* whenever the bottom-left corner fails.
C9_BboxErrorsAreUninitalOrProjError ==
    (last.op = "bbox" /\ mercator # None) =>
        /\ last.outcome.kind \in {"Ok", "Err"}
        /\ last.outcome.kind = "Err" =>
              /\ DOMAIN last.outcome = {"kind", "err"}
              /\ last.outcome.err.tag \in {"Uninital", "ProjError"}
        /\ (last.outcome = Err(Uninital)) <=> (Engine.proj_marker = None)
        /\ Engine.proj_marker # None =>
              LET t  == Engine.proj_marker[1]
                  bl == Convert(t, BottomLeft)
                  rt == Convert(t, TopRight)
              IN  /\ (last.outcome.kind = "Err") <=> (~bl.ok \/ ~rt.ok)
                  /\ ~bl.ok => /\ last.outcome = Err(ProjError(bl.err))
                               /\ last.converted = <<BottomLeft>>
                  /\ (bl.ok /\ ~rt.ok) =>
                        last.outcome = Err(ProjError(rt.err))

C9_Witness ==
    /\ BboxOnBuilt
    /\ last.args = << None, Some(<<100, 100>>) >>
    /\ last.outcome = Err(ProjError("InvalidCoordinate"))
    /\ last.converted = << <<-180, 100>> >>

\* C10: LatLonCoord::new yields a coordinate system exactly when bbox on
\* the projection is Ok and panics otherwise; on success x and y are the
\* bbox ranges, the Cartesian mapping is built from them onto the supplied
\* pixel ranges, and lon and lat hold the supplied optional ranges as given.
C10_NewSucceedsIffBboxOk ==
    [][ (last'.op = "LatLonCoord::new" /\ mercator # None) =>
          LET lon    == last'.args[1]
              lat    == last'.args[2]
              actual == last'.args[3]
              b      == BboxOf(Engine, lon, lat).outcome
          IN  /\ (last'.outcome.kind = "Ok") <=> (b.kind = "Ok")
              /\ b.kind # "Ok" => (last'.outcome = Panic /\ coord' = coord)
              /\ b.kind = "Ok" =>
                    /\ coord' # None
                    /\ coord'[1].lon = lon
                    /\ coord'[1].lat = lat
                    /\ coord'[1].x = b.value[1]
                    /\ coord'[1].y = b.value[2]
                    /\ coord'[1].cartesian =
                           Cartesian2dNew(b.value[1], b.value[2], actual)
                    /\ coord'[1].proj = Engine ]_vars

C10_Witness ==
    /\ last.op = "LatLonCoord::new"
    /\ last.outcome.kind = "Ok"
    /\ coord # None
    /\ coord[1].lon = None
    /\ coord[1].lat = Some(<<0, 84>>)
    /\ coord[1].x = <<-20038, 20038>>
====
